---- MODULE Spec2Model ----
(***************************************************************************)
(* AIImageAnalyzer (ai-integration-module): one analyzer object with its   *)
(* configuration, result cache and statistics, driven by analyzeImage,     *)
(* clearCache, updateConfig and getStats.  analyzeImage is an async        *)
(* function: in the modes that await a backend the call is split into the  *)
(* part that runs at invocation and the part that runs when the awaited    *)
(* promise settles; everything between two awaits is one atomic step, as   *)
(* on the single-threaded event loop.                                      *)
(*                                                                         *)
(* Units: Math.random() values, scores and confidences are in hundredths   *)
(* (0.85 is 85); the clock counts milliseconds; text is a sequence of      *)
(* one-character strings.                                                  *)
(***************************************************************************)
EXTENDS Integers, Sequences, FiniteSets, TLC

(***************************************************************************)
(* Bounds of the model.                                                    *)
(***************************************************************************)
\* events explored in one behaviour: invocations of the analyzer's entry
\* points, resumptions of suspended calls, and ticks of the clock
MaxOps == 4

(***************************************************************************)
(* Helpers for JavaScript values.                                          *)
(***************************************************************************)
\* the object {} : a record without fields
EmptyObject == [k \in {} |-> TRUE]

\* obj.field where the field may be absent (undefined is modelled as "")
Field(obj, f) == IF f \in DOMAIN obj THEN obj[f] ELSE ""

\* { ...a, ...b } : b's own keys win, a's remaining keys are kept
Spread(a, b) == [k \in (DOMAIN a) \cup (DOMAIN b) |-> IF k \in DOMAIN b THEN b[k] ELSE a[k]]

Min(a, b) == IF a < b THEN a ELSE b

RECURSIVE Gcd(_, _)
Gcd(a, b) == IF b = 0 THEN a ELSE Gcd(b, a % b)

\* a value that completed normally, and one that threw
Ok(v) == [threw |-> FALSE, value |-> v]
Thrown(e) == [threw |-> TRUE, error |-> e]

(***************************************************************************)
(* Inputs: image references, options, the file system, random draws.       *)
(***************************************************************************)
\* a file path (typeof image === 'string') and an in-memory Buffer; the files
\* on disk: path -> size in bytes; a path outside the domain cannot be read
PathImage(p) == [kind |-> "string", path |-> p]
BufferImage(b) == [kind |-> "buffer", bytes |-> b]

VARIABLE disk   \* the paths of the files that are on disk
InitialFiles == {"./cat.jpg"}
FileSystem == [p \in disk |-> [size |-> 3]]
\* path.extname of the paths in use, as characters
ExtOf ==
    [p \in {"./cat.jpg", "./missing.png", "image.jpg"} |->
        IF p = "./missing.png" THEN <<".", "p", "n", "g">> ELSE <<".", "j", "p", "g">>]

\* the analyzeImage requests explored: a readable file, a file that does not
\* exist, an in-memory buffer
Requests ==
    { <<PathImage("./cat.jpg"), EmptyObject>>,
      <<PathImage("./missing.png"), EmptyObject>>,
      <<BufferImage(<<1, 2>>), EmptyObject>> }

\* JSON.stringify of the options objects in use
JSONStringify(options) ==
    IF DOMAIN options = {} THEN "{}"
    ELSE "{\"prompt\":\"" \o options.prompt \o "\"}"

\* One run of the mock generator consumes eight Math.random() values, in
\* this order: objects, colors, sentiment, confidence, text, width, height,
\* processingTime.  A draw is that tuple, in hundredths (0..99).
Draw(o, c, s, cf, t, w, h, p) ==
    [objects |-> o, colors |-> c, sentiment |-> s, confidence |-> cf,
     text |-> t, width |-> w, height |-> h, processingTime |-> p]
Draws == { Draw(0, 0, 0, 0, 0, 0, 0, 0), Draw(99, 99, 99, 99, 99, 99, 99, 99) }

(***************************************************************************)
(* The mock generator: analyzeWithMockAI and its helpers.                  *)
(***************************************************************************)
objectLists ==
    << <<"person", "computer", "desk", "chair", "window">>,
       <<"car", "road", "tree", "building", "sky">>,
       <<"dog", "cat", "grass", "house", "fence">>,
       <<"food", "plate", "table", "utensils", "drink">>,
       <<"mountain", "lake", "forest", "clouds", "sun">> >>

colorPalettes ==
    << <<"#2d3748", "#4a5568", "#718096", "#a0aec0", "#cbd5e0">>,
       <<"#667eea", "#764ba2", "#f687b3", "#fed7e2", "#fff5f7">>,
       <<"#38a169", "#48bb78", "#68d391", "#9ae6b4", "#c6f6d5">>,
       <<"#dd6b20", "#ed8936", "#f6ad55", "#fbd38d", "#feebc8">>,
       <<"#3182ce", "#4299e1", "#63b3ed", "#90cdf4", "#bee3f8">> >>

sentiments == <<"positive", "neutral", "negative", "mixed">>

mockTexts ==
    << "A person working at a computer in a modern office environment.",
       "Beautiful landscape with mountains and a lake under clear skies.",
       "Delicious looking food arranged beautifully on a plate.",
       "Urban cityscape with tall buildings and busy streets.",
       "Cute pets playing together in a green garden." >>

\* list[Math.floor(Math.random() * list.length)], u the random value in hundredths
PickRandom(list, u) == list[((u * Len(list)) \div 100) + 1]

getRandomObjects(u) == PickRandom(objectLists, u)
getRandomColors(u) == PickRandom(colorPalettes, u)
getRandomSentiment(u) == PickRandom(sentiments, u)
getRandomText(u) == PickRandom(mockTexts, u)

\* (x).toFixed(2) of x given in ten-thousandths: a STRING holding x rounded to
\* two decimals (kept as its value in hundredths)
ToFixed2(tenThousandths) ==
    [typeof |-> "string", hundredths |-> (tenThousandths + 50) \div 100]

RECURSIVE Join(_)
Join(chars) == IF chars = <<>> THEN "" ELSE Head(chars) \o Join(Tail(chars))

\* path.extname(...).slice(1) || 'jpg'
FormatOf(image) ==
    LET ext == ExtOf[IF image.kind = "string" THEN image.path ELSE "image.jpg"]
        sliced == IF ext = <<>> THEN "" ELSE Join(Tail(ext))
    IN  IF sliced = "" THEN "jpg" ELSE sliced

\* a file that cannot be read is taken to be empty
SizeOf_Lenient(image) ==
    IF image.kind = "string"
    THEN IF image.path \in DOMAIN FileSystem
         THEN Ok(FileSystem[image.path].size)
         ELSE Ok(0)
    ELSE Ok(Len(image.bytes))

\* fs.statSync(image).size for a path (throws when the file cannot be read),
\* image.length for a buffer
SizeOf(image) ==
    IF image.kind = "string"
    THEN IF image.path \in DOMAIN FileSystem
         THEN Ok(FileSystem[image.path].size)
         ELSE Thrown("ENOENT")
    ELSE Ok(Len(image.bytes))

analyzeWithMockAI(image, d, clock) ==
    LET size == SizeOf(image) IN
    IF size.threw THEN Thrown(size.error)
    ELSE Ok([ success |-> TRUE,
              mode |-> "mock",
              timestamp |-> clock,
              analysis |->
                [ objects |-> getRandomObjects(d.objects),
                  colors |-> getRandomColors(d.colors),
                  sentiment |-> getRandomSentiment(d.sentiment),
                  confidence |-> ToFixed2(d.confidence * 30 + 7000),
                  text |-> getRandomText(d.text),
                  metadata |->
                    [ width |-> d.width * 10 + 800,
                      height |-> d.height * 8 + 600,
                      format |-> FormatOf(image),
                      size |-> size.value ] ],
              processingTime |-> d.processingTime * 5 + 100 ])

(***************************************************************************)
(* Normalisation of the OpenAI answer: parseOpenAIResponse and helpers.    *)
(***************************************************************************)
commonObjects ==
    << <<"p", "e", "r", "s", "o", "n">>,
       <<"c", "o", "m", "p", "u", "t", "e", "r">>,
       <<"c", "a", "r">>,
       <<"t", "r", "e", "e">>,
       <<"b", "u", "i", "l", "d", "i", "n", "g">>,
       <<"d", "o", "g">>,
       <<"c", "a", "t">>,
       <<"f", "o", "o", "d">>,
       <<"m", "o", "u", "n", "t", "a", "i", "n">>,
       <<"w", "a", "t", "e", "r">> >>

colorNames ==
    << <<"r", "e", "d">>,
       <<"b", "l", "u", "e">>,
       <<"g", "r", "e", "e", "n">>,
       <<"y", "e", "l", "l", "o", "w">>,
       <<"b", "l", "a", "c", "k">>,
       <<"w", "h", "i", "t", "e">>,
       <<"g", "r", "a", "y">>,
       <<"b", "r", "o", "w", "n">>,
       <<"o", "r", "a", "n", "g", "e">>,
       <<"p", "u", "r", "p", "l", "e">> >>

positiveWords ==
    << <<"g", "o", "o", "d">>,
       <<"g", "r", "e", "a", "t">>,
       <<"e", "x", "c", "e", "l", "l", "e", "n", "t">>,
       <<"h", "a", "p", "p", "y">>,
       <<"b", "e", "a", "u", "t", "i", "f", "u", "l">>,
       <<"w", "o", "n", "d", "e", "r", "f", "u", "l">>,
       <<"a", "m", "a", "z", "i", "n", "g">> >>

negativeWords ==
    << <<"b", "a", "d">>,
       <<"p", "o", "o", "r">>,
       <<"s", "a", "d">>,
       <<"u", "g", "l", "y">>,
       <<"t", "e", "r", "r", "i", "b", "l", "e">>,
       <<"a", "w", "f", "u", "l">>,
       <<"h", "o", "r", "r", "i", "b", "l", "e">> >>

\* String.prototype.toLowerCase, on the letters that occur in the answers
LowerChar(c) ==
    CASE c = "A" -> "a" [] c = "B" -> "b" [] c = "C" -> "c" [] c = "D" -> "d"
      [] c = "G" -> "g" [] c = "H" -> "h" [] c = "R" -> "r" [] c = "S" -> "s"
      [] OTHER -> c
ToLowerCase(text) == [i \in 1..Len(text) |-> LowerChar(text[i])]

\* String.prototype.includes
Includes(text, word) ==
    \E i \in 1..(Len(text) - Len(word) + 1) : SubSeq(text, i, i + Len(word) - 1) = word

\* Array.prototype.filter is SelectSeq
extractObjectsFromText(text) ==
    LET Has(obj) == Includes(ToLowerCase(text), obj)
    IN  SelectSeq(commonObjects, Has)

\* Number.prototype.toString(16)
HexDigit(n) ==
    <<"0", "1", "2", "3", "4", "5", "6", "7", "8", "9", "a", "b", "c", "d", "e", "f">>[n + 1]
RECURSIVE ToHex(_)
ToHex(n) == IF n < 16 THEN HexDigit(n) ELSE ToHex(n \div 16) \o HexDigit(n % 16)

\* one fabricated colour per colour name found; us[i] is the Math.random()
\* value (in hundredths) used for the i-th of them
extractColorsFromText(text, us) ==
    LET Has(color) == Includes(ToLowerCase(text), color)
        found == SelectSeq(colorNames, Has)
    IN  [i \in 1..Len(found) |-> "#" \o ToHex((us[i] * 16777215) \div 100)]

analyzeSentiment(text) ==
    LET lowerText == ToLowerCase(text)
        Has(word) == Includes(lowerText, word)
        positiveCount == Len(SelectSeq(positiveWords, Has))
        negativeCount == Len(SelectSeq(negativeWords, Has))
    IN  IF positiveCount > negativeCount THEN "positive"
        ELSE IF negativeCount > positiveCount THEN "negative"
        ELSE "neutral"

parseOpenAIResponse(text, us) ==
    [ description |-> text,
      objects |-> extractObjectsFromText(text),
      colors |-> extractColorsFromText(text, us),
      sentiment |-> analyzeSentiment(text),
      confidence |-> 85,
      text |-> SubSeq(text, 1, Min(200, Len(text))) \o <<".", ".", ".">> ]

(***************************************************************************)
(* Normalisation of the Google Vision answer: parseGoogleVisionResponse.   *)
(***************************************************************************)
\* obj?.field : an absent object or field gives an object without fields
Optional(obj, field) == IF field \in DOMAIN obj THEN obj[field] ELSE EmptyObject

\* response.field?.map(f) || []
OrEmpty(obj, field) == IF field \in DOMAIN obj THEN obj[field] ELSE <<>>

parseGoogleVisionResponse(response) ==
    LET Label(label) == [description |-> label.description, score |-> label.score]
        Text(text) == [description |-> text.description]
        Face(face) == [joy |-> face.joyLikelihood, sorrow |-> face.sorrowLikelihood,
                       anger |-> face.angerLikelihood, surprise |-> face.surpriseLikelihood]
        Color(color) ==
            [color |-> "rgb(" \o ToString(color.color.red) \o ", "
                       \o ToString(color.color.green) \o ", "
                       \o ToString(color.color.blue) \o ")",
             score |-> color.score]
        Map(list, F(_)) == [i \in 1..Len(list) |-> F(list[i])]
        labels == Map(OrEmpty(response, "labelAnnotations"), Label)
        texts == Map(OrEmpty(response, "textAnnotations"), Text)
        faces == Map(OrEmpty(response, "faceAnnotations"), Face)
        colors == Map(OrEmpty(Optional(Optional(response, "imagePropertiesAnnotation"),
                                       "dominantColors"), "colors"), Color)
    IN  [ labels |-> labels,
          texts |-> texts,
          faces |-> faces,
          colors |-> colors,
          safeSearch |-> Field(response, "safeSearchAnnotation"),
          confidence |-> IF Len(labels) > 0 THEN labels[1].score ELSE 50 ]

(***************************************************************************)
(* Backend answers (what the awaited axios.post settles with).             *)
(***************************************************************************)
HappyDogText ==
    <<"A", " ", "h", "a", "p", "p", "y", " ", "d", "o", "g", " ", "o", "n", " ",
      "a", " ", "r", "e", "d", " ", "s", "o", "f", "a">>

\* kind "ok" is a 2xx response carrying data; every other kind is a rejected request
OpenAIResponses ==
    { [kind |-> "ok",
       data |-> [choices |-> << [message |-> [content |-> HappyDogText]] >>,
                 usage |-> [total_tokens |-> 42]]],
      [kind |-> "ok",
       data |-> [choices |-> << [message |-> [content |-> <<"s", "a", "d">>]] >>,
                 usage |-> [total_tokens |-> 7]]],
      [kind |-> "ok", data |-> [choices |-> << >>, usage |-> [total_tokens |-> 0]]],
      [kind |-> "network_error"], [kind |-> "non_2xx"], [kind |-> "timeout"] }

GoogleResponses ==
    { [kind |-> "ok",
       data |-> [responses |-> <<
          [labelAnnotations |-> << [description |-> "cat", score |-> 98],
                                   [description |-> "pet", score |-> 91] >>,
           safeSearchAnnotation |-> [adult |-> "VERY_UNLIKELY"]] >>]],
      [kind |-> "ok", data |-> [responses |-> << [safeSearchAnnotation |-> [adult |-> "UNLIKELY"]] >>]],
      [kind |-> "ok", data |-> [responses |-> << >>]],
      [kind |-> "timeout"] }

NoResponse == [kind |-> "none"]

\* the answers a suspended provider call can get: those of the provider it
\* has sent a request to, none when it sent no request
ResponsesTo(await) ==
    IF await.kind # "request" THEN {NoResponse}
    ELSE IF await.provider = "openai" THEN OpenAIResponses
    ELSE GoogleResponses

\* the Math.random() values handed to extractColorsFromText
ColorDraws == { <<50>> }

(***************************************************************************)
(* The provider calls.  An async provider call runs up to its await when   *)
(* it is invoked (BeforeAwait) and from there on when the request settles  *)
(* (AfterAwait).                                                           *)
(***************************************************************************)
\* fs.readFileSync(image) for a path; a buffer is used as it is
ReadImage(image) ==
    IF image.kind = "string" /\ image.path \notin DOMAIN FileSystem
    THEN Thrown("ENOENT") ELSE Ok(image)

\* the promise an awaited call is waiting on
Rejected(e) == [kind |-> "rejected", error |-> e]
Resolved(v) == [kind |-> "resolved", value |-> v]
Requested(provider) == [kind |-> "request", provider |-> provider]

analyzeWithOpenAIBeforeAwait(cfg, image) ==
    IF Field(Optional(cfg, "openai"), "apiKey") = ""
    THEN Rejected("OpenAI API key not configured")
    ELSE IF ReadImage(image).threw THEN Rejected(ReadImage(image).error)
    ELSE Requested("openai")

analyzeWithOpenAIAfterAwait(response, us, clock) ==
    IF response.kind # "ok" THEN Thrown(response.kind)
    ELSE IF Len(response.data.choices) = 0 THEN Thrown("TypeError")
    ELSE Ok([ success |-> TRUE,
              mode |-> "openai",
              timestamp |-> clock,
              analysis |-> parseOpenAIResponse(response.data.choices[1].message.content, us),
              rawResponse |-> response.data,
              processingTime |-> response.data.usage.total_tokens ])

analyzeWithGoogleVisionBeforeAwait(cfg, image) ==
    IF Field(Optional(cfg, "google"), "apiKey") = ""
    THEN Rejected("Google Vision API key not configured")
    ELSE IF ReadImage(image).threw THEN Rejected(ReadImage(image).error)
    ELSE Requested("google")

\* the identifiers analyzeWithGoogleVision can resolve: its parameters, its
\* locals and the module's top-level bindings
GoogleVisionScope ==
    { "image", "options", "imageData", "features", "response",
      "fs", "path", "axios", "AIImageAnalyzer", "aiAnalyzer" }

\* the returned object literal is evaluated field by field; processingTime
\* reads startTime, which is a local of analyzeImage
analyzeWithGoogleVisionAfterAwait(response, clock) ==
    IF response.kind # "ok" THEN Thrown(response.kind)
    ELSE IF Len(response.data.responses) = 0 THEN Thrown("TypeError")
    ELSE IF "startTime" \notin GoogleVisionScope
    THEN Thrown("ReferenceError: startTime is not defined")
    ELSE Ok([ success |-> TRUE,
              mode |-> "google",
              timestamp |-> clock,
              analysis |-> parseGoogleVisionResponse(response.data.responses[1]),
              rawResponse |-> response.data,
              processingTime |-> clock ])

\* the local model served over HTTP by the OpenAI-compatible endpoint
analyzeWithLocalAI_Remote(image, d, clock) == Requested("openai")

\* async analyzeWithLocalAI runs the mock generator when it is invoked
analyzeWithLocalAI(image, d, clock) ==
    LET r == analyzeWithMockAI(image, d, clock)
    IN  IF r.threw THEN Rejected(r.error) ELSE Resolved(r.value)

(***************************************************************************)
(* The analyzer's state.                                                   *)
(***************************************************************************)
VARIABLES
    config,     \* this.config: top-level key -> value
    cache,      \* this.cache: cache key -> stored result
    stats,      \* this.stats
    pending,    \* analyzeImage calls suspended at their await
    now,        \* Date.now()
    calls,      \* number of analyzeImage invocations made so far
    last,       \* how the most recently finished analyzeImage call ended
    prevOp,     \* the most recent operation on the analyzer
    elapsed,    \* sum of the response times of the calls counted in successful
    probing,    \* number of testConnection probes suspended at their request
    ops         \* number of events so far

vars == <<disk, config, cache, stats, pending, now, calls, last, prevOp, elapsed, probing, ops>>

\* one more event happens
Step == ops < MaxOps /\ ops' = ops + 1

Modes == {"mock", "openai", "google", "local", "custom"}

DefaultOpenAI == [apiKey |-> "", model |-> "gpt-4-vision-preview"]
DefaultGoogle == [apiKey |-> "", projectId |-> ""]
DefaultLocal == [useLocal |-> FALSE, modelPath |-> "./models"]

\* new AIImageAnalyzer(cfg)
Constructor(cfg) ==
    [ mode |-> IF "mode" \in DOMAIN cfg /\ cfg.mode # "" THEN cfg.mode ELSE "mock",
      openai |-> IF "openai" \in DOMAIN cfg THEN cfg.openai ELSE DefaultOpenAI,
      google |-> IF "google" \in DOMAIN cfg THEN cfg.google ELSE DefaultGoogle,
      local |-> IF "local" \in DOMAIN cfg THEN cfg.local ELSE DefaultLocal,
      maxRetries |-> IF "maxRetries" \in DOMAIN cfg /\ cfg.maxRetries # 0
                     THEN cfg.maxRetries ELSE 3,
      timeout |-> IF "timeout" \in DOMAIN cfg /\ cfg.timeout # 0
                  THEN cfg.timeout ELSE 30000,
      cacheResults |-> ~("cacheResults" \in DOMAIN cfg /\ cfg.cacheResults = FALSE) ]

InitialStats ==
    [ totalRequests |-> 0, successful |-> 0, failed |-> 0, cacheHits |-> 0,
      averageResponseTime |-> [num |-> 0, den |-> 1] ]

\* the configuration AIIntegrationManager.loadConfig pushes into the analyzer:
\* its defaults overlaid with an ai-config.json that sets a one-entry,
\* one-millisecond cache policy
ManagerConfig ==
    [ mode |-> "mock", openai |-> DefaultOpenAI, google |-> DefaultGoogle,
      features |-> [objectDetection |-> TRUE, faceDetection |-> FALSE],
      cache |-> [enabled |-> TRUE, maxSize |-> 1, ttl |-> 1] ]

\* the arguments updateConfig is called with
Partials ==
    { [mode |-> m] : m \in Modes }
    \cup { [openai |-> [apiKey |-> "sk-test"]],
           [google |-> [apiKey |-> "g-key"]],
           [cacheResults |-> FALSE], [cacheResults |-> TRUE],
           ManagerConfig }

\* the arguments the analyzer is constructed with: none (the exported
\* singleton), and those of AIIntegrationManager.testAllConnections
ConstructorArgs ==
    { EmptyObject,
      [mode |-> "openai", openai |-> [apiKey |-> "sk-test", model |-> "gpt-4-vision-preview"]],
      [mode |-> "google", google |-> [apiKey |-> "g-key", projectId |-> "p"]] }

NoResult == [mode |-> "none"]
NoCall ==
    [ id |-> 0, image |-> BufferImage(<<>>), options |-> EmptyObject, key |-> "",
      mode |-> "none", overlapped |-> FALSE, outcome |-> "none",
      caught |-> "none", response |-> NoResponse, result |-> NoResult ]

(***************************************************************************)
(* analyzeImage, piece by piece.                                           *)
(***************************************************************************)
\* the key of a buffer made from its bytes instead of its length
getCacheKey_ByContent(image, options) ==
    IF image.kind = "string"
    THEN image.path \o "-" \o JSONStringify(options)
    ELSE "buffer-" \o ToString(image.bytes) \o "-" \o JSONStringify(options)

\* the key also names the mode the analyzer is in
getCacheKey_WithMode(image, options) ==
    IF image.kind = "string"
    THEN config.mode \o "-" \o image.path \o "-" \o JSONStringify(options)
    ELSE config.mode \o "-buffer-" \o ToString(Len(image.bytes)) \o "-" \o JSONStringify(options)

getCacheKey(image, options) ==
    IF image.kind = "string"
    THEN image.path \o "-" \o JSONStringify(options)
    ELSE "buffer-" \o ToString(Len(image.bytes)) \o "-" \o JSONStringify(options)

\* this.stats.totalRequests++
CountRequest(s) == [s EXCEPT !.totalRequests = @ + 1]

\* the cache is consulted whether or not caching is enabled
IsCacheHit_Always(cfg, c, key) == key \in DOMAIN c

\* this.config.cacheResults && this.cache.has(cacheKey)
IsCacheHit(cfg, c, key) == cfg.cacheResults /\ key \in DOMAIN c

\* the request counted only after the cache check, on a miss
CountCacheHit_RequestUncounted(s) ==
    [s EXCEPT !.cacheHits = @ + 1, !.totalRequests = @ - 1]

\* this.stats.cacheHits++
CountCacheHit(s) == [s EXCEPT !.cacheHits = @ + 1]

\* the switch on this.config.mode: which cases await a provider call
Suspends(mode) == mode \in {"openai", "google", "local"}

\* the provider call up to its await
BeforeAwait(cfg, image, d, clock) ==
    CASE cfg.mode = "openai" -> analyzeWithOpenAIBeforeAwait(cfg, image)
      [] cfg.mode = "google" -> analyzeWithGoogleVisionBeforeAwait(cfg, image)
      [] cfg.mode = "local" -> analyzeWithLocalAI(image, d, clock)

\* the value or error the awaited provider call ends with
AfterAwait(await, response, us, clock) ==
    CASE await.kind = "rejected" -> Thrown(await.error)
      [] await.kind = "resolved" -> Ok(await.value)
      [] await.kind = "request" /\ await.provider = "openai" ->
            analyzeWithOpenAIAfterAwait(response, us, clock)
      [] await.kind = "request" /\ await.provider = "google" ->
            analyzeWithGoogleVisionAfterAwait(response, clock)

\* the running average, kept as a reduced fraction
Fraction(n, d) == [num |-> n \div Gcd(n, d), den |-> d \div Gcd(n, d)]
\* the average is updated but the call is not counted
RecordSuccess_Uncounted(s, responseTime) ==
    LET avg == s.averageResponseTime
    IN  [s EXCEPT !.averageResponseTime =
                      Fraction(avg.num * s.successful + responseTime * avg.den,
                               avg.den * (s.successful + 1))]

\* the average replaced by the latest response time instead of weighted
RecordSuccess_LatestOnly(s, responseTime) ==
    [s EXCEPT !.averageResponseTime = Fraction(responseTime, 1),
              !.successful = @ + 1]

RecordSuccess(s, responseTime) ==
    LET avg == s.averageResponseTime
    IN  [s EXCEPT
            !.averageResponseTime =
                Fraction(avg.num * s.successful + responseTime * avg.den,
                         avg.den * (s.successful + 1)),
            !.successful = @ + 1]

\* an entry that is already there is kept: the first write wins
CacheSet_KeepFirst(c, key, result) ==
    [k \in (DOMAIN c) \cup {key} |-> IF k \in DOMAIN c THEN c[k] ELSE result]

\* this.cache.set(cacheKey, result)
CacheSet(c, key, result) ==
    [k \in (DOMAIN c) \cup {key} |-> IF k = key THEN result ELSE c[k]]

\* the result is returned without being stored
StoreResult_Skipped(cfg, c, key, result) == c

\* the cache policy's maxSize enforced: a full cache is emptied before the write
StoreResult_Evicting(cfg, c, key, result) ==
    IF ~cfg.cacheResults THEN c
    ELSE IF "cache" \in DOMAIN cfg /\ Cardinality(DOMAIN c \ {key}) >= cfg.cache.maxSize
    THEN [k \in {key} |-> result]
    ELSE CacheSet(c, key, result)

\* if (this.config.cacheResults) this.cache.set(cacheKey, result)
StoreResult(cfg, c, key, result) ==
    IF cfg.cacheResults THEN CacheSet(c, key, result) ELSE c

\* the failure is logged but not counted
CountFailure_Uncounted(s) == s

\* this.stats.failed++
CountFailure(s) == [s EXCEPT !.failed = @ + 1]

\* the catch block rethrows instead of substituting a mock result
Fallback_Rethrow(image, d, clock) == Thrown("rethrown")

\* return this.analyzeWithMockAI(image, options) in the catch block
Fallback(image, d, clock) == analyzeWithMockAI(image, d, clock)

\* the record of a finished call
Finished(call, outcome, caught, response, result) ==
    [ id |-> call.id, image |-> call.image, options |-> call.options,
      key |-> call.key, mode |-> call.mode, overlapped |-> call.overlapped,
      outcome |-> outcome, caught |-> caught, response |-> response,
      result |-> result ]

\* the catch block stores the fallback result like a provider's
Settle_CachingFallback(call, r, response, s, d) ==
    IF ~r.threw
    THEN /\ stats' = RecordSuccess(s, now - call.startTime)
         /\ elapsed' = elapsed + (now - call.startTime)
         /\ cache' = StoreResult(config, cache, call.key, r.value)
         /\ last' = Finished(call, "success", "none", response, r.value)
    ELSE LET fb == Fallback(call.image, d, now) IN
         /\ stats' = CountFailure(s)
         /\ UNCHANGED elapsed
         /\ cache' = IF fb.threw THEN cache
                     ELSE StoreResult(config, cache, call.key, fb.value)
         /\ last' = IF fb.threw
                    THEN Finished(call, "error", r.error, response, NoResult)
                    ELSE Finished(call, "fallback", r.error, response, fb.value)

\* the try block after the provider call and the catch block: r is what the
\* provider call ended with, s the statistics as the call finds them
Settle(call, r, response, s, d) ==
    IF ~r.threw
    THEN /\ stats' = RecordSuccess(s, now - call.startTime)
         /\ elapsed' = elapsed + (now - call.startTime)
         /\ cache' = StoreResult(config, cache, call.key, r.value)
         /\ last' = Finished(call, "success", "none", response, r.value)
    ELSE LET fb == Fallback(call.image, d, now) IN
         /\ stats' = CountFailure(s)
         /\ UNCHANGED elapsed
         /\ cache' = cache
         /\ last' = IF fb.threw
                    THEN Finished(call, "error", r.error, response, NoResult)
                    ELSE Finished(call, "fallback", r.error, response, fb.value)

\* the suspended calls with the cache key key
InFlight(key) == { c \in pending : c.key = key }

\* a call as analyzeImage starts it; overlapped records that another call
\* with the same cache key is (or was) in flight at the same time
NewCall(image, options) ==
    [ id |-> calls + 1, image |-> image, options |-> options,
      key |-> getCacheKey(image, options), mode |-> config.mode,
      startTime |-> now,
      overlapped |-> InFlight(getCacheKey(image, options)) # {} ]

\* the most recent operation was the return of an analyzeImage call
Returned(op) ==
    \/ op.op = "resume"
    \/ op.op = "analyzeImage" /\ ~op.suspended

\* prevOp after an analyzeImage invocation: whether the call is suspended
\* at its await or has returned, whether it directly followed the return of
\* a call, and whether it directly followed a clearCache that removed its key
Invoked(call, suspended) ==
    [ op |-> "analyzeImage", call |-> call.id, suspended |-> suspended,
      afterReturn |-> Returned(prevOp),
      afterClear |-> prevOp.op = "clearCache" /\ call.key \in prevOp.cleared ]

\* analyzeImage(image, options), up to its first await or its return
Invoke(image, options, d) ==
    /\ Step
    /\ calls' = calls + 1
    /\ LET call == NewCall(image, options)
           counted == CountRequest(stats)
       IN  IF IsCacheHit(config, cache, call.key)
           THEN /\ stats' = CountCacheHit(counted)
                /\ last' = Finished(call, "hit", "none", NoResponse, cache[call.key])
                /\ prevOp' = Invoked(call, FALSE)
                /\ UNCHANGED <<cache, pending, elapsed>>
           ELSE IF Suspends(config.mode)
           THEN /\ stats' = counted
                /\ pending' =
                      { IF c.key = call.key THEN [c EXCEPT !.overlapped = TRUE] ELSE c :
                            c \in pending }
                      \cup {Spread(call, [await |-> BeforeAwait(config, image, d, now)])}
                /\ prevOp' = Invoked(call, TRUE)
                /\ UNCHANGED <<cache, last, elapsed>>
           ELSE /\ Settle(call, analyzeWithMockAI(image, d, now), NoResponse, counted, d)
                /\ prevOp' = Invoked(call, FALSE)
                /\ UNCHANGED pending
    /\ UNCHANGED <<disk, config, now, probing>>

\* a failed request is sent again, the call staying suspended, as long as
\* the call has been in flight for fewer than maxRetries events
Resume_Retrying(call, response, us, d) ==
    /\ Step
    /\ call \in pending
    /\ LET r == AfterAwait(call.await, response, us, now) IN
       IF r.threw /\ call.await.kind = "request" /\ ops - call.id < config.maxRetries
       THEN UNCHANGED <<pending, stats, cache, last, elapsed>>
       ELSE /\ pending' = pending \ {call}
            /\ Settle(call, r, response, stats, d)
    /\ prevOp' = [op |-> "resume", call |-> call.id]
    /\ UNCHANGED <<disk, config, now, calls, probing>>

\* the rest of analyzeImage, run when the awaited provider call settles
Resume(call, response, us, d) ==
    /\ Step
    /\ call \in pending
    /\ pending' = pending \ {call}
    /\ Settle(call, AfterAwait(call.await, response, us, now), response, stats, d)
    /\ prevOp' = [op |-> "resume", call |-> call.id]
    /\ UNCHANGED <<disk, config, now, calls, probing>>

(***************************************************************************)
(* The bookkeeping operations.                                             *)
(***************************************************************************)
getStats ==
    [ totalRequests |-> stats.totalRequests, successful |-> stats.successful,
      failed |-> stats.failed, cacheHits |-> stats.cacheHits,
      averageResponseTime |-> stats.averageResponseTime,
      cacheSize |-> Cardinality(DOMAIN cache),
      mode |-> config.mode,
      cacheEnabled |-> config.cacheResults ]

\* getStats hands the caller the stats object itself
ReturnedObject_Stats == "this.stats"

\* the object getStats returns: its object literal makes a new object, into
\* which the spread copies the counters, all of them numbers
ReturnedObject == "new object"

GetStats ==
    /\ Step
    /\ prevOp' = [op |-> "getStats", returned |-> getStats, object |-> ReturnedObject]
    /\ UNCHANGED <<disk, config, cache, stats, pending, now, calls, last, elapsed, probing>>

\* clearCache resets nothing
Cleared_Kept(c) == c

\* this.cache.clear()
Cleared(c) == [k \in {} |-> NoResult]

\* clearCache also abandons the calls in flight
ClearCache_Cancelling ==
    /\ Step
    /\ cache' = Cleared(cache)
    /\ pending' = {}
    /\ prevOp' = [op |-> "clearCache", cleared |-> DOMAIN cache]
    /\ UNCHANGED <<disk, config, stats, now, calls, last, elapsed, probing>>

ClearCache ==
    /\ Step
    /\ cache' = Cleared(cache)
    /\ prevOp' = [op |-> "clearCache", cleared |-> DOMAIN cache]
    /\ UNCHANGED <<disk, config, stats, pending, now, calls, last, elapsed, probing>>

\* a deep merge: a supplied provider object is merged into the old one
Merged_Deep(cfg, newConfig) ==
    [ k \in DOMAIN cfg \cup DOMAIN newConfig |->
        IF k \notin DOMAIN newConfig THEN cfg[k]
        ELSE IF k \in DOMAIN cfg /\ k \in {"openai", "google", "local"}
        THEN Spread(cfg[k], newConfig[k])
        ELSE newConfig[k] ]

\* this.config = { ...this.config, ...newConfig }
Merged(cfg, newConfig) == Spread(cfg, newConfig)

UpdateConfig(newConfig) ==
    /\ Step
    /\ config' = Merged(config, newConfig)
    /\ prevOp' = [op |-> "updateConfig", arg |-> newConfig]
    /\ UNCHANGED <<disk, cache, stats, pending, now, calls, last, elapsed, probing>>

\* a millisecond passes
Tick ==
    /\ Step
    /\ now' = now + 1
    /\ UNCHANGED <<disk, config, cache, stats, pending, calls, last, prevOp, elapsed, probing>>

Init ==
    /\ disk = InitialFiles
    /\ config \in { Constructor(cfg) : cfg \in ConstructorArgs }
    /\ cache = [k \in {} |-> NoResult]
    /\ stats = InitialStats
    /\ pending = {}
    /\ now = 0
    /\ calls = 0
    /\ last = NoCall
    /\ prevOp = [op |-> "init"]
    /\ elapsed = 0
    /\ probing = 0
    /\ ops = 0

\* the analyzer driven with the requests reqs and the updateConfig arguments parts
Run(reqs, parts) ==
    \/ \E request \in reqs, d \in Draws : Invoke(request[1], request[2], d)
    \/ \E call \in pending, us \in ColorDraws, d \in Draws :
          \E response \in ResponsesTo(call.await) : Resume(call, response, us, d)
    \/ GetStats
    \/ ClearCache
    \/ \E newConfig \in parts : UpdateConfig(newConfig)
    \/ Tick

Next == Run(Requests, Partials)

Spec == Init /\ [][Next]_vars

(***************************************************************************)
(* testConnection, and a caller that writes into the record getStats gave  *)
(* it.  These are explored with fewer requests and configurations.         *)
(***************************************************************************)
\* what the awaited axios.get of the probe settles with: a model list, a 2xx
\* answer without one, a 401, a timeout
ProbeResponses ==
    { [kind |-> "ok", data |-> [data |-> <<"gpt-4", "gpt-4-vision-preview">>]],
      [kind |-> "ok", data |-> EmptyObject],
      [kind |-> "Request failed with status code 401"],
      [kind |-> "timeout of 5000ms exceeded"] }

\* testOpenAIConnection after its await: the try block and the catch block
testOpenAIConnection(response) ==
    IF response.kind # "ok" THEN [success |-> FALSE, error |-> response.kind]
    ELSE IF "data" \notin DOMAIN response.data
    THEN [success |-> FALSE, error |-> "TypeError"]
    ELSE [success |-> TRUE, models |-> Len(response.data.data)]

\* the Google test reports success whether or not a key is configured
testGoogleConnection_Always(cfg) ==
    [success |-> TRUE, message |-> "API key present"]

\* the key is reported present whatever success says
testGoogleConnection(cfg) ==
    [ success |-> Field(Optional(cfg, "google"), "apiKey") # "",
      message |-> "API key present" ]

\* the default case of testConnection's switch
testConnectionDefault(cfg) ==
    [ success |-> TRUE, mode |-> cfg.mode,
      message |-> "Mock mode - no API connection needed" ]

\* testConnection(), up to the probe's await or to its return
TestConnection ==
    /\ Step
    /\ IF config.mode = "openai"
       THEN /\ probing' = probing + 1
            /\ prevOp' = [op |-> "testConnection", mode |-> config.mode, suspended |-> TRUE]
       ELSE /\ probing' = probing
            /\ prevOp' = [ op |-> "testConnection", mode |-> config.mode,
                           suspended |-> FALSE,
                           threw |-> FALSE,
                           returned |-> IF config.mode = "google"
                                        THEN testGoogleConnection(config)
                                        ELSE testConnectionDefault(config) ]
    /\ UNCHANGED <<disk, config, cache, stats, pending, now, calls, last, elapsed>>

\* the rest of testOpenAIConnection, run when the probe settles
ProbeSettles(response) ==
    /\ Step
    /\ probing > 0
    /\ probing' = probing - 1
    /\ prevOp' = [ op |-> "testConnection", mode |-> "openai", suspended |-> FALSE,
                   threw |-> FALSE, response |-> response,
                   returned |-> testOpenAIConnection(response) ]
    /\ UNCHANGED <<disk, config, cache, stats, pending, now, calls, last, elapsed>>

\* the caller assigns to a counter of the record getStats returned
MutateSnapshot(field) ==
    /\ Step
    /\ prevOp.op \in {"getStats", "mutateSnapshot"}
    /\ prevOp' = [ op |-> "mutateSnapshot", object |-> prevOp.object,
                   returned |-> [prevOp.returned EXCEPT ![field] = -1] ]
    /\ stats' = IF prevOp.object = "this.stats"
                THEN [stats EXCEPT ![field] = -1] ELSE stats
    /\ UNCHANGED <<disk, config, cache, pending, now, calls, last, elapsed, probing>>

BookkeepingRequests ==
    { <<PathImage("./cat.jpg"), EmptyObject>>, <<BufferImage(<<1, 2>>), EmptyObject>> }

BookkeepingPartials ==
    { [mode |-> "openai"], [mode |-> "google"], [mode |-> "local"],
      [google |-> [projectId |-> "p"]] }

NextBookkeeping ==
    \/ Run(BookkeepingRequests, BookkeepingPartials)
    \/ TestConnection
    \/ \E response \in ProbeResponses : ProbeSettles(response)
    \/ \E field \in {"totalRequests", "cacheHits"} : MutateSnapshot(field)

SpecBookkeeping == Init /\ [][NextBookkeeping]_vars

(***************************************************************************)
(* The analyzer beside a file system that changes: a file that was         *)
(* analysed is removed from the disk.                                      *)
(***************************************************************************)
\* the file p is deleted (not by the analyzer; prevOp stays as it is)
RemoveFile(p) ==
    /\ Step
    /\ p \in disk
    /\ disk' = disk \ {p}
    /\ UNCHANGED <<config, cache, stats, pending, now, calls, last, prevOp, elapsed, probing>>

FileRequests ==
    { <<PathImage("./cat.jpg"), EmptyObject>>, <<PathImage("./missing.png"), EmptyObject>> }

FilePartials == { [mode |-> "mock"], [mode |-> "local"], [cacheResults |-> FALSE] }

NextFiles ==
    \/ Run(FileRequests, FilePartials)
    \/ \E p \in disk : RemoveFile(p)

SpecFiles == Init /\ [][NextFiles]_vars

(***************************************************************************)
(* The analyzer with a call in flight.  The behaviours start in the state  *)
(* that the analyzer constructed for OpenAI is in once analyzeImage has    *)
(* been invoked for a two-byte buffer: the call is suspended at its        *)
(* request.  From there the analyzer is driven with requests for that      *)
(* buffer and for another buffer of the same length; events are counted    *)
(* from that state on.                                                     *)
(***************************************************************************)
FirstBuffer == BufferImage(<<1, 2>>)
SecondBuffer == BufferImage(<<3, 4>>)

BufferRequests == { <<FirstBuffer, EmptyObject>>, <<SecondBuffer, EmptyObject>> }

BufferPartials == { [mode |-> "mock"], [cacheResults |-> FALSE] }

OpenAIConfig ==
    Constructor([mode |-> "openai",
                 openai |-> [apiKey |-> "sk-test", model |-> "gpt-4-vision-preview"]])

\* the suspended call: analyzeImage(FirstBuffer) invoked at time 0
FirstCall ==
    [ id |-> 1, image |-> FirstBuffer, options |-> EmptyObject,
      key |-> getCacheKey(FirstBuffer, EmptyObject), mode |-> OpenAIConfig.mode,
      startTime |-> 0, overlapped |-> FALSE,
      await |-> analyzeWithOpenAIBeforeAwait(OpenAIConfig, FirstBuffer) ]

InitInFlight ==
    /\ disk = InitialFiles
    /\ config = OpenAIConfig
    /\ cache = [k \in {} |-> NoResult]
    /\ stats = CountRequest(InitialStats)
    /\ pending = {FirstCall}
    /\ now = 0
    /\ calls = 1
    /\ last = NoCall
    /\ prevOp = [ op |-> "analyzeImage", call |-> 1, suspended |-> TRUE,
                  afterReturn |-> FALSE, afterClear |-> FALSE ]
    /\ elapsed = 0
    /\ probing = 0
    /\ ops = 0

NextInFlight == Run(BufferRequests, BufferPartials)

SpecInFlight == InitInFlight /\ [][NextInFlight]_vars

\* InitInFlight is the state Spec reaches by its first event
InFlightReached ==
    /\ disk = InitialFiles
    /\ config = OpenAIConfig
    /\ cache = [k \in {} |-> NoResult]
    /\ stats = CountRequest(InitialStats)
    /\ pending = {FirstCall}
    /\ now = 0
    /\ calls = 1
    /\ last = NoCall
    /\ prevOp = [ op |-> "analyzeImage", call |-> 1, suspended |-> TRUE,
                  afterReturn |-> FALSE, afterClear |-> FALSE ]
    /\ elapsed = 0
    /\ probing = 0
    /\ ops = 1

(***************************************************************************)
(* The analyzer reconfigured between calls.  The behaviours start with the *)
(* same call in flight; updateConfig then selects another mode, replaces   *)
(* the OpenAI credentials or turns caching off and on.                     *)
(***************************************************************************)
SwitchPartials ==
    { [mode |-> "mock"],
      [mode |-> "mock", cacheResults |-> FALSE],
      [openai |-> [apiKey |-> "sk-other"]],
      [cacheResults |-> FALSE], [cacheResults |-> TRUE] }

NextSwitch == Run({ <<FirstBuffer, EmptyObject>> }, SwitchPartials)

SpecSwitch == InitInFlight /\ [][NextSwitch]_vars

(***************************************************************************)
(* The cache cleared with a call in flight.  The behaviours start with the *)
(* same call in flight; the requests made then are for a buffer of another *)
(* length, which has another cache key, and caching can be turned off but  *)
(* not on again.                                                           *)
(***************************************************************************)
ThirdBuffer == BufferImage(<<5>>)

ClearRequests == { <<ThirdBuffer, EmptyObject>> }

ClearPartials == { [cacheResults |-> FALSE] }

NextClear == Run(ClearRequests, ClearPartials)

SpecClear == InitInFlight /\ [][NextClear]_vars

(***************************************************************************)
(* Properties.  A step "starts" a call when it is an analyzeImage          *)
(* invocation and "returns" one when an analyzeImage call hands its result *)
(* (or its error) to the caller: at the invocation for a cache hit and for *)
(* the synchronous mock path, at the resumption for an awaited provider.   *)
(***************************************************************************)
StartsCall == calls' = calls + 1
ReturnsCall == last'.id # last.id

\* the call started by this step, as the step leaves it
StartedCall ==
    IF last'.id = calls' THEN last' ELSE CHOOSE c \in pending' : c.id = calls'

\* the step suspends the call it starts at the await of a provider call
SuspendsCall == StartsCall /\ last'.id # calls'

\* a result of the mock generator: success true, mode 'mock'
MockShaped(r) ==
    /\ DOMAIN r = {"success", "mode", "timestamp", "analysis", "processingTime"}
    /\ r.success
    /\ r.mode = "mock"

\* the image's size can be read: a buffer, or a path to a file that exists
Readable(image) == ~SizeOf(image).threw

OpenAIKeyMissing == "OpenAI API key not configured"
GoogleKeyMissing == "Google Vision API key not configured"

(***************************************************************************)
(* C1: getStats().totalRequests equals the number of analyzeImage          *)
(* invocations made so far, whatever way each ended (cache hit, fresh      *)
(* dispatch, fallback, error).  clearCache, updateConfig and getStats      *)
(* leave the number of invocations as it is, so the equality holding in    *)
(* every state also says that they never change totalRequests.             *)
(***************************************************************************)
C1_TotalRequestsCountsInvocations ==
    /\ stats.totalRequests = calls
    /\ getStats.totalRequests = calls

\* a cache hit, a successful dispatch and a call that ended in an error,
\* followed by a clearCache
C1_Witness ==
    /\ calls = 3
    /\ stats.cacheHits = 1 /\ stats.successful = 1 /\ stats.failed = 1
    /\ last.outcome = "error"
    /\ prevOp.op = "clearCache"

(***************************************************************************)
(* C2, as claimed: with caching enabled, in every mode, an analyzeImage    *)
(* call that directly follows the return of a call with the same image and *)
(* options is a cache hit: it returns the same result, increments          *)
(* cacheHits by one and dispatches nothing.                                *)
(***************************************************************************)
C2_Repeats ==
    /\ StartsCall
    /\ Returned(prevOp)
    /\ config.cacheResults
    /\ StartedCall.image = last.image
    /\ StartedCall.options = last.options

C2_ServedFromCache ==
    /\ last'.id = calls'
    /\ last'.outcome = "hit"
    /\ last'.result = last.result
    /\ stats'.cacheHits = stats.cacheHits + 1
    /\ stats'.successful = stats.successful
    /\ stats'.failed = stats.failed
    /\ pending' = pending
    /\ cache' = cache

C3_AfterSwitchToOpenAI ==
    /\ prevOp.op = "updateConfig"
    /\ "mode" \in DOMAIN prevOp.arg
    /\ prevOp.arg.mode = "openai"
    /\ Field(Optional(config, "openai"), "apiKey") = ""

C3_RejectedForKey ==
    /\ SuspendsCall
    /\ StartedCall.await = Rejected(OpenAIKeyMissing)

C3_FallsBack ==
    /\ stats'.failed = stats.failed + 1
    /\ last'.outcome = "fallback"
    /\ MockShaped(last'.result)

C3_Original ==
    [][ /\ (StartsCall /\ C3_AfterSwitchToOpenAI => C3_RejectedForKey)
        /\ (ReturnsCall /\ last'.caught = OpenAIKeyMissing => C3_FallsBack) ]_vars

(***************************************************************************)
(* C3, amended: ... the very next analyzeImage call, unless it is served   *)
(* from the cache (caching enabled and its fingerprint stored), fails on   *)
(* the missing key and failed is one higher than before; it returns a      *)
(* mock-shaped result with success true when the image is in-memory bytes  *)
(* or a file that can be read, and ends in the fallback's error when it is *)
(* a path that cannot be read.                                             *)
(***************************************************************************)
C3_MissingKeyFallsBack ==
    [][ /\ (/\ StartsCall
            /\ C3_AfterSwitchToOpenAI
            /\ ~IsCacheHit(config, cache, StartedCall.key)
            => C3_RejectedForKey)
        /\ (ReturnsCall /\ last'.caught = OpenAIKeyMissing =>
                /\ stats'.failed = stats.failed + 1
                /\ IF Readable(last'.image)
                   THEN last'.outcome = "fallback" /\ MockShaped(last'.result)
                   ELSE last'.outcome = "error") ]_vars

\* three events: the switch to openai, the call, its resumption
C3_Witness ==
    /\ ops = 3
    /\ calls = 1
    /\ prevOp.op = "resume"
    /\ last.mode = "openai"
    /\ last.caught = OpenAIKeyMissing
    /\ last.outcome = "fallback"
    /\ stats.failed = 1

(***************************************************************************)
(* C4, as claimed: whenever the selected backend call fails (missing       *)
(* credential, network error, non-2xx response, malformed response body,   *)
(* timeout), analyzeImage increments failed by exactly one, surfaces no    *)
(* error and returns a result with success true and mode 'mock'.           *)
(***************************************************************************)
\* the provider call of the returning call failed, for another reason than
\* an image file that cannot be read
C4_BackendFailed == ReturnsCall /\ last'.caught \notin {"none", "ENOENT"}

C4_Original ==
    [][C4_BackendFailed =>
        /\ stats'.failed = stats.failed + 1
        /\ last'.outcome = "fallback"
        /\ last'.result.success
        /\ last'.result.mode = "mock"]_vars

(***************************************************************************)
(* C4, amended: whenever the selected backend call fails, analyzeImage     *)
(* increments failed by exactly one; when the image is in-memory bytes or  *)
(* a file that can be read it surfaces no error and returns a result with  *)
(* success true and mode 'mock', and when the image is a path that cannot  *)
(* be read the fallback's own error is surfaced to the caller.             *)
(***************************************************************************)
C4_FailureFallsBack ==
    [][C4_BackendFailed =>
        /\ stats'.failed = stats.failed + 1
        /\ stats'.successful = stats.successful
        /\ IF Readable(last'.image)
           THEN /\ last'.outcome = "fallback"
                /\ last'.result.success
                /\ last'.result.mode = "mock"
           ELSE last'.outcome = "error"]_vars

\* a request the backend answered with a non-2xx status, replaced by a mock result
C4_Witness ==
    /\ last.caught = "non_2xx"
    /\ last.outcome = "fallback"
    /\ last.result.mode = "mock"
    /\ stats.failed = 1

(***************************************************************************)
(* C5: in google mode with a non-empty API key and a successful annotate   *)
(* response, analyzeImage returns a result whose mode is 'google', whose   *)
(* analysis is the normalized Google response with confidence equal to the *)
(* first label's score (0.5 when there are no labels), and the call is     *)
(* counted in successful and not in failed.                                *)
(***************************************************************************)
\* the returning call sent its request with the configured key and got a
\* 2xx answer with an annotation in it
C5_GoogleAnswered ==
    /\ ReturnsCall
    /\ last'.mode = "google"
    /\ last'.response.kind = "ok"
    /\ Len(last'.response.data.responses) > 0

C5_GoogleSucceeds ==
    [][C5_GoogleAnswered =>
        LET annotation == last'.response.data.responses[1] IN
        /\ last'.outcome = "success"
        /\ last'.result.mode = "google"
        /\ last'.result.analysis = parseGoogleVisionResponse(annotation)
        /\ last'.result.analysis.confidence =
              IF "labelAnnotations" \in DOMAIN annotation
              THEN annotation.labelAnnotations[1].score ELSE 50
        /\ stats'.successful = stats.successful + 1
        /\ stats'.failed = stats.failed]_vars

(***************************************************************************)
(* C6: after clearCache(), a repeat analyzeImage request for a cache key   *)
(* that was cached before the clear does not increment cacheHits and is    *)
(* dispatched afresh: it runs the mock generator or awaits the provider    *)
(* call of the configured mode.                                            *)
(***************************************************************************)
C6_RepeatAfterClear ==
    /\ StartsCall
    /\ prevOp.op = "clearCache"
    /\ StartedCall.key \in prevOp.cleared

C6_ClearCacheForgets ==
    [][C6_RepeatAfterClear =>
        /\ stats'.cacheHits = stats.cacheHits
        /\ \/ SuspendsCall /\ StartedCall \in pending'
           \/ /\ ~Suspends(config.mode)
              /\ last'.id = calls'
              /\ last'.outcome \in {"success", "error"}
              /\ last'.outcome = "success" => last'.result.timestamp = now]_vars

\* a cached request repeated after a clearCache and generated anew
C6_Witness ==
    /\ prevOp.op = "analyzeImage"
    /\ prevOp.afterClear
    /\ ~prevOp.suspended
    /\ last.id = calls
    /\ last.outcome = "success"
    /\ stats.cacheHits = 0
    /\ stats.successful = 2

(***************************************************************************)
(* C7: updateConfig(partial) yields exactly the shallow merge of partial   *)
(* over the current configuration: every top-level key present in partial  *)
(* takes partial's value wholesale (a supplied provider object replaces    *)
(* the old one and drops its unspecified fields), and every top-level key  *)
(* absent from partial keeps its previous value.                           *)
(***************************************************************************)
\* the step is an updateConfig call (a clock tick leaves prevOp as it is)
C7_UpdatesConfig == prevOp'.op = "updateConfig" /\ now' = now

C7_ShallowMerge ==
    [][C7_UpdatesConfig =>
        LET partial == prevOp'.arg IN
        /\ DOMAIN config' = DOMAIN config \cup DOMAIN partial
        /\ \A k \in DOMAIN partial : config'[k] = partial[k]
        /\ \A k \in DOMAIN config \ DOMAIN partial : config'[k] = config[k]]_vars

\* a provider object with the key only has replaced the constructor's: the
\* model name is gone, the other top-level keys are the constructor's
C7_Witness ==
    /\ ops = 1
    /\ prevOp.op = "updateConfig"
    /\ prevOp.arg = [openai |-> [apiKey |-> "sk-test"]]
    /\ config.openai = [apiKey |-> "sk-test"]
    /\ config.mode = "mock"
    /\ config.google = DefaultGoogle

(***************************************************************************)
(* C8: every result returned by analyzeImage, whichever backend produced   *)
(* it, carries an analysis with all NormalizedAnalysis fields: objects,    *)
(* colors, sentiment, confidence, text and metadata.                       *)
(***************************************************************************)
NormalizedAnalysisFields ==
    {"objects", "colors", "sentiment", "confidence", "text", "metadata"}

C8_NormalizedAnalysis ==
    last.outcome \in {"hit", "success", "fallback"} =>
        NormalizedAnalysisFields \subseteq DOMAIN last.result.analysis

(***************************************************************************)
(* C9, as claimed: two analyzeImage calls with the same cache key that are *)
(* both started before either completes, in a mode whose dispatch          *)
(* suspends, both miss the cache, both execute the backend call and both   *)
(* write the cache, the entry holding the result of the one that completed *)
(* last; neither is counted as a cache hit.                                *)
(***************************************************************************)
\* the step starts a call while a call with the same key is in flight
C9_StartsOverlapping ==
    /\ StartsCall
    /\ Suspends(config.mode)
    /\ \E c \in pending : c.key = StartedCall.key

\* the step completes a call that was in flight together with a same-key call
C9_CompletesOverlapped == ReturnsCall /\ last'.id \in {c.id : c \in pending} /\ last'.overlapped

C9_Dispatched ==
    /\ SuspendsCall
    /\ stats'.cacheHits = stats.cacheHits
    /\ {c.id : c \in pending'} = {c.id : c \in pending} \cup {calls'}

C9_Original ==
    [][ /\ (C9_StartsOverlapping => C9_Dispatched)
        /\ (C9_CompletesOverlapped =>
                /\ stats'.cacheHits = stats.cacheHits
                /\ last'.key \in DOMAIN cache'
                /\ cache'[last'.key] = last'.result) ]_vars

(***************************************************************************)
(* C9, amended: such calls are not de-duplicated.  The later one is        *)
(* dispatched like the first unless the key has been stored in the         *)
(* meantime (by a third call with that key) and caching is enabled; each   *)
(* of them whose backend call completes without error while caching is     *)
(* enabled writes the cache, so that the entry holds the result of the     *)
(* last such completion, and one whose backend call fails, or completes    *)
(* while caching is disabled, leaves the cache as it is.  No dispatched    *)
(* call is counted as a cache hit.                                         *)
(***************************************************************************)
C9_NoDeduplication ==
    [][ /\ (C9_StartsOverlapping /\ ~IsCacheHit(config, cache, StartedCall.key)
                => C9_Dispatched)
        /\ (C9_CompletesOverlapped =>
                /\ stats'.cacheHits = stats.cacheHits
                /\ IF last'.outcome = "success" /\ config.cacheResults
                   THEN /\ last'.key \in DOMAIN cache'
                        /\ cache'[last'.key] = last'.result
                        /\ \A k \in DOMAIN cache \ {last'.key} :
                              k \in DOMAIN cache' /\ cache'[k] = cache[k]
                   ELSE cache' = cache) ]_vars

\* two overlapping calls, both answered: the one started first completed
\* last, with another answer than the other, and its result is the entry
C9_Witness ==
    /\ calls = 2
    /\ pending = {}
    /\ last.id = 1
    /\ last.overlapped
    /\ last.outcome = "success"
    /\ last.response.data.usage.total_tokens = 7
    /\ stats.successful = 2
    /\ stats.cacheHits = 0
    /\ cache[last.key] = last.result

(***************************************************************************)
(* C10, as claimed: a cache entry, once stored, stays present and keeps    *)
(* being served until clearCache() is called: no analyzeImage or           *)
(* updateConfig call removes an entry, and neither elapsed time nor the    *)
(* configured ttl / maxSize ever evicts one.                               *)
(***************************************************************************)
\* the step is a clearCache call (a clock tick leaves prevOp as it is)
C10_ClearsCache == prevOp'.op = "clearCache" /\ now' = now

C10_EntriesStay == C10_ClearsCache \/ \A k \in DOMAIN cache : k \in DOMAIN cache'

C10_Served ==
    /\ last'.id = calls'
    /\ last'.outcome = "hit"
    /\ last'.result = cache[last'.key]
    /\ stats'.cacheHits = stats.cacheHits + 1

InFlightIds(calls_) == {c.id : c \in calls_}

\* the step settles what a suspended call awaits (a clock tick leaves prevOp as it is)
C11_SettlesCall == prevOp'.op = "resume" /\ now' = now

C12_UnknownMode == config.mode \notin {"mock", "openai", "google", "local"}

\* the call returning in this step has produced a mock result and is counted
\* in successful
C12_MockSuccess ==
    /\ last'.outcome = "success"
    /\ last'.response = NoResponse
    /\ MockShaped(last'.result)
    /\ stats'.successful = stats.successful + 1
    /\ stats'.failed = stats.failed

\* the call returning in this step ended in the mock generator's error
C12_MockError ==
    /\ last'.outcome = "error"
    /\ last'.response = NoResponse
    /\ stats'.successful = stats.successful
    /\ stats'.failed = stats.failed + 1

C12_Original ==
    [][ /\ (StartsCall /\ C12_UnknownMode => last'.id = calls' /\ C12_MockSuccess)
        /\ (StartsCall /\ config.mode = "local" =>
                SuspendsCall /\ StartedCall.await.kind = "resolved")
        /\ (ReturnsCall /\ last'.mode = "local" => C12_MockSuccess) ]_vars

(***************************************************************************)
(* C12, amended: for mode 'local' and for any mode value outside {mock,    *)
(* openai, google, local}, analyzeImage makes no network call; unless the  *)
(* request is served from the cache, it runs the mock generator, and when  *)
(* the image is in-memory bytes or a file that can be read it returns the  *)
(* mock result and is counted in successful, not in failed; when the image *)
(* is a path that cannot be read the call is counted in failed and ends in *)
(* the input error.                                                        *)
(***************************************************************************)
C12_LocalAndUnknownAreMock ==
    [][ /\ (/\ StartsCall
            /\ C12_UnknownMode
            /\ ~IsCacheHit(config, cache, StartedCall.key)
            => /\ last'.id = calls'
               /\ IF Readable(last'.image) THEN C12_MockSuccess ELSE C12_MockError)
        /\ (StartsCall /\ (config.mode = "local" \/ C12_UnknownMode) =>
                \A c \in pending' : c.id = calls' => c.await.kind # "request")
        /\ (/\ StartsCall
            /\ config.mode = "local"
            /\ ~IsCacheHit(config, cache, StartedCall.key)
            => /\ SuspendsCall
               /\ StartedCall.await.kind =
                     IF Readable(StartedCall.image) THEN "resolved" ELSE "rejected")
        /\ (ReturnsCall /\ last'.mode = "local" /\ last'.outcome # "hit" =>
                IF Readable(last'.image) THEN C12_MockSuccess ELSE C12_MockError) ]_vars

\* a call made in local mode has returned the mock result
C12_Witness ==
    /\ last.mode = "local"
    /\ last.outcome = "success"
    /\ prevOp.op = "resume"
    /\ MockShaped(last.result)
    /\ stats.successful = 1
    /\ stats.failed = 0

(***************************************************************************)
(* C13: on every analyzeImage call that completes a backend dispatch       *)
(* successfully, averageResponseTime becomes (oldAvg * s + t) / (s + 1),   *)
(* where s is the value of successful before this call's increment and t   *)
(* is this call's response time, so that after n successful dispatches it  *)
(* equals the arithmetic mean of their n response times (their sum,        *)
(* elapsed, over n); cache hits and failed calls leave it unchanged.       *)
(***************************************************************************)
\* the response time of the call returning in this step: the time since it
\* was invoked
C13_ResponseTime ==
    IF \E c \in pending : c.id = last'.id
    THEN now - (CHOOSE c \in pending : c.id = last'.id).startTime
    ELSE 0

\* a = n / d, for a fraction a
C13_Equals(a, n, d) == a.num * d = n * a.den

C14_SameLength(a, b) ==
    /\ a.kind = "buffer" /\ b.kind = "buffer"
    /\ a.bytes # b.bytes
    /\ Len(a.bytes) = Len(b.bytes)

C15_Calls(op) == prevOp'.op = op /\ now' = now

C15_Bookkeeping ==
    [][ /\ C15_Calls("getStats") =>
              /\ UNCHANGED <<cache, stats, config, pending>>
              /\ prevOp'.returned =
                    Spread(stats, [ cacheSize |-> Cardinality(DOMAIN cache),
                                    mode |-> config.mode,
                                    cacheEnabled |-> config.cacheResults ])
        /\ C15_Calls("mutateSnapshot") =>
              /\ UNCHANGED <<cache, stats, config, pending>>
              /\ \E field \in DOMAIN stats : prevOp'.returned[field] # stats[field]
        /\ C15_Calls("clearCache") =>
              /\ DOMAIN cache' = {}
              /\ UNCHANGED <<stats, config, pending>>
        /\ C15_Calls("updateConfig") =>
              /\ UNCHANGED <<cache, stats, pending>>
              /\ config' = Spread(config, prevOp'.arg) ]_vars

\* with a result cached and a call counted, the caller has overwritten a
\* counter of the record getStats returned; the analyzer's counter stands
C15_Witness ==
    /\ prevOp.op = "mutateSnapshot"
    /\ prevOp.returned.totalRequests = -1
    /\ prevOp.returned.cacheSize = 1
    /\ stats.totalRequests = 1
    /\ stats.successful = 1
    /\ Cardinality(DOMAIN cache) = 1

(***************************************************************************)
(* C16, as claimed: in mock mode, analyzeImage with a file path that       *)
(* cannot be read does not return a result: the input error propagates to  *)
(* the caller, nothing is stored in the cache for that cache key, and      *)
(* successful is not incremented.                                          *)
(***************************************************************************)
C16_MockUnreadable ==
    /\ StartsCall
    /\ config.mode = "mock"
    /\ StartedCall.image.kind = "string"
    /\ StartedCall.image.path \notin DOMAIN FileSystem

C16_ErrorPropagates ==
    /\ last'.id = calls'
    /\ last'.outcome = "error"
    /\ last'.caught = "ENOENT"
    /\ last'.result = NoResult
    /\ cache' = cache
    /\ stats'.successful = stats.successful
    /\ stats'.cacheHits = stats.cacheHits
    /\ pending' = pending

C16_Original == [][C16_MockUnreadable => C16_ErrorPropagates]_vars

(***************************************************************************)
(* C16, amended: in mock mode, analyzeImage with a file path that cannot   *)
(* be read, unless it is served from the cache (caching enabled and a      *)
(* result stored for the path while the file could still be read), does    *)
(* not return a result: the input error propagates to the caller, nothing  *)
(* is stored in the cache, and successful is not incremented.              *)
(***************************************************************************)
C16_InputErrorPropagates ==
    [][ /\ C16_MockUnreadable /\ ~IsCacheHit(config, cache, StartedCall.key)
            => C16_ErrorPropagates
        /\ C16_MockUnreadable /\ IsCacheHit(config, cache, StartedCall.key)
            => /\ last'.id = calls'
               /\ last'.outcome = "hit"
               /\ last'.result = cache[last'.key] ]_vars

\* the file was analysed and cached, then removed; with caching switched
\* off, the next call for it has ended in the input error
C16_Witness ==
    /\ last.mode = "mock"
    /\ last.image = PathImage("./cat.jpg")
    /\ "./cat.jpg" \notin disk
    /\ last.outcome = "error"
    /\ last.caught = "ENOENT"
    /\ last.key \in DOMAIN cache
    /\ stats.successful = 1
    /\ stats.failed = 1

(***************************************************************************)
(* C17: testConnection never changes the cache or the stats and returns by *)
(* mode: in mock mode (and any mode other than openai/google) it always    *)
(* reports success; in google mode it reports success exactly when         *)
(* google.apiKey is a non-empty string and makes no network call; in       *)
(* openai mode it sends one probe, and a failed probe is reported as a     *)
(* result with success false and an error message, not thrown.             *)
(***************************************************************************)
\* the step is a testConnection call or the settlement of its probe
C17_TestsConnection == prevOp'.op = "testConnection" /\ now' = now

C17_HasGoogleKey ==
    /\ "google" \in DOMAIN config
    /\ "apiKey" \in DOMAIN config.google
    /\ config.google.apiKey # ""

C17_TestConnection ==
    [][C17_TestsConnection =>
        /\ UNCHANGED <<cache, stats, config, pending, calls, last>>
        /\ IF prevOp'.suspended
           THEN \* invoked in openai mode: the probe is sent
                /\ config.mode = "openai"
                /\ probing' = probing + 1
           ELSE IF prevOp'.mode = "openai"
           THEN \* the probe has settled
                /\ probing' = probing - 1
                /\ ~prevOp'.threw
                /\ prevOp'.returned.success =
                      (prevOp'.response.kind = "ok" /\ "data" \in DOMAIN prevOp'.response.data)
                /\ ~prevOp'.returned.success =>
                      /\ "error" \in DOMAIN prevOp'.returned
                      /\ prevOp'.returned.error # ""
           ELSE IF prevOp'.mode = "google"
           THEN /\ config.mode = "google"
                /\ probing' = probing
                /\ ~prevOp'.threw
                /\ prevOp'.returned.success = C17_HasGoogleKey
           ELSE /\ config.mode \notin {"openai", "google"}
                /\ probing' = probing
                /\ ~prevOp'.threw
                /\ prevOp'.returned.success
                /\ prevOp'.returned.mode = config.mode ]_vars

\* with a result cached, a probe answered 401 is reported as a failure
C17_Witness ==
    /\ prevOp.op = "testConnection"
    /\ ~prevOp.suspended
    /\ prevOp.mode = "openai"
    /\ prevOp.returned =
          [success |-> FALSE, error |-> "Request failed with status code 401"]
    /\ probing = 0
    /\ stats.totalRequests = 1
    /\ Cardinality(DOMAIN cache) = 1

(***************************************************************************)
(* C18: for every analyzeImage request served by the mock generator, the   *)
(* result's analysis.sentiment is one of positive, neutral, negative,      *)
(* mixed and analysis.confidence is a number in [0.70, 1.00].              *)
(***************************************************************************)
\* the last call returned a result made by the mock generator
C18_ServedByMock ==
    /\ last.outcome \in {"success", "fallback", "hit"}
    /\ last.result.mode = "mock"

C18_MockRanges ==
    C18_ServedByMock =>
        /\ last.result.analysis.sentiment \in {"positive", "neutral", "negative", "mixed"}
        /\ last.result.analysis.confidence.typeof = "number"
        /\ last.result.analysis.confidence.hundredths \in 70..100

(***************************************************************************)
(* C19: every analyzeImage invocation increments totalRequests once on     *)
(* entry and then exactly one of cacheHits, successful or failed before it *)
(* finishes (also when it finishes with an error), so in every state       *)
(* totalRequests = successful + failed + cacheHits + (number of calls      *)
(* still in flight), under any interleaving of concurrent calls.           *)
(***************************************************************************)
C19_Finished(s) == s.successful + s.failed + s.cacheHits

C19_EveryCallCounted ==
    [][ /\ stats'.totalRequests = C19_Finished(stats') + Cardinality(pending')
        /\ stats'.totalRequests = stats.totalRequests + (IF StartsCall THEN 1 ELSE 0)
        /\ C19_Finished(stats') = C19_Finished(stats) + (IF ReturnsCall THEN 1 ELSE 0)
        /\ stats'.successful >= stats.successful
        /\ stats'.failed >= stats.failed
        /\ stats'.cacheHits >= stats.cacheHits
        /\ ReturnsCall =>
              CASE last'.outcome = "hit" -> stats'.cacheHits = stats.cacheHits + 1
                [] last'.outcome = "success" -> stats'.successful = stats.successful + 1
                [] last'.outcome \in {"fallback", "error"} ->
                        stats'.failed = stats.failed + 1 ]_vars

\* three calls: one succeeded, one was served from the cache, one is still
\* in flight
C19_Witness ==
    /\ stats.totalRequests = 3
    /\ stats.successful = 1
    /\ stats.cacheHits = 1
    /\ stats.failed = 0
    /\ Cardinality(pending) = 1
    /\ last.outcome = "hit"

(***************************************************************************)
(* C20, as claimed: a fallback result is never written to the cache: the   *)
(* cache only ever holds results of dispatches that completed without      *)
(* error, so getStats().cacheSize <= successful in every state, and        *)
(* repeating a request whose previous attempt fell back dispatches to the  *)
(* backend again (incrementing failed again if it still fails) instead of  *)
(* hitting the cache.                                                      *)
(***************************************************************************)
\* the cache changes only by a clearCache or by the result of a dispatch
\* that completed without error, and holds no more entries than successful
C20_OnlySuccessesStored ==
    /\ ReturnsCall /\ last'.outcome \in {"fallback", "error", "hit"} => cache' = cache
    /\ cache' # cache =>
          \/ C10_ClearsCache /\ DOMAIN cache' = {}
          \/ /\ ReturnsCall
             /\ last'.outcome = "success"
             /\ cache' = CacheSet(cache, last'.key, last'.result)
    /\ Cardinality(DOMAIN cache') <= stats'.successful

\* the step repeats the request of the call that has just returned a fallback
C20_RepeatsFallenBack ==
    /\ StartsCall
    /\ Returned(prevOp)
    /\ last.outcome = "fallback"
    /\ StartedCall.image = last.image
    /\ StartedCall.options = last.options

C20_DispatchedAgain ==
    /\ stats'.cacheHits = stats.cacheHits
    /\ \/ SuspendsCall
       \/ last'.id = calls' /\ last'.outcome # "hit"

C20_Original ==
    [][ /\ C20_OnlySuccessesStored
        /\ (C20_RepeatsFallenBack => C20_DispatchedAgain) ]_vars

(***************************************************************************)
(* C20, amended: a fallback result is never written to the cache: the      *)
(* cache only ever holds results of dispatches that completed without      *)
(* error, so getStats().cacheSize <= successful in every state, and        *)
(* repeating a request whose previous attempt fell back dispatches to the  *)
(* backend again (incrementing failed again if it still fails) unless      *)
(* another call has stored a result under the same cache key, as an        *)
(* overlapping call with that key that completed without error does, in    *)
(* which case the repeat is served that result.                            *)
(***************************************************************************)
C20_FallbackNotCached ==
    [][ /\ C20_OnlySuccessesStored
        /\ (C20_RepeatsFallenBack /\ ~IsCacheHit(config, cache, StartedCall.key)
                => C20_DispatchedAgain)
        /\ (C20_RepeatsFallenBack /\ IsCacheHit(config, cache, StartedCall.key)
                => /\ last'.outcome = "hit"
                   /\ last'.result = cache[last.key]
                   /\ stats'.failed = stats.failed) ]_vars

\* the request that fell back was repeated, dispatched and fell back again
C20_Witness ==
    /\ calls = 2
    /\ last.id = 2
    /\ last.image = FirstBuffer
    /\ last.outcome = "fallback"
    /\ prevOp.op = "resume"
    /\ stats.failed = 2
    /\ stats.successful = 0
    /\ DOMAIN cache = {}

(***************************************************************************)
(* C21, as claimed: the cache key names neither the mode nor a credential. *)
(* When the most recently returned call completed without error and its    *)
(* result is still in the cache (no clearCache since), and updateConfig    *)
(* has since selected another mode or replaced a provider's credentials,   *)
(* an analyzeImage call with the same image and options is a cache hit: it *)
(* returns the stored result of the old mode, dispatches nothing to the    *)
(* backend now selected and leaves successful and failed as they are.      *)
(***************************************************************************)
\* updateConfig has replaced a provider's credentials just before this step
C21_CredentialsReplaced ==
    /\ prevOp.op = "updateConfig"
    /\ \E p \in {"openai", "google"} :
          p \in DOMAIN prevOp.arg /\ prevOp.arg[p] # OpenAIConfig[p]

\* the step repeats the request of the last call, whose result was stored
\* under a mode or under credentials that are no longer the configured ones
C21_RepeatsAfterSwitch ==
    /\ StartsCall
    /\ last.outcome = "success"
    /\ last.key \in DOMAIN cache
    /\ cache[last.key] = last.result
    /\ StartedCall.image = last.image
    /\ StartedCall.options = last.options
    /\ (config.mode # last.mode \/ C21_CredentialsReplaced)

C21_ServedOldResult ==
    /\ last'.id = calls'
    /\ last'.outcome = "hit"
    /\ last'.result = last.result
    /\ last'.result.mode = last.mode
    /\ stats'.cacheHits = stats.cacheHits + 1
    /\ stats'.successful = stats.successful
    /\ stats'.failed = stats.failed
    /\ pending' = pending
    /\ cache' = cache

C21_Original == [][C21_RepeatsAfterSwitch => C21_ServedOldResult]_vars

(***************************************************************************)
(* C21, amended: the same, for a call made while caching is enabled.       *)
(* (After updateConfig({cacheResults:false}) the cache is not consulted:   *)
(* the call is dispatched to the backend now selected.)                    *)
(***************************************************************************)
C21_KeyIgnoresConfig ==
    [][C21_RepeatsAfterSwitch /\ config.cacheResults => C21_ServedOldResult]_vars

\* the OpenAI result of the first call, served again in mock mode
C21_Witness ==
    /\ calls = 2
    /\ last.id = 2
    /\ last.outcome = "hit"
    /\ last.mode = "mock"
    /\ last.result.mode = "openai"
    /\ config.mode = "mock"
    /\ prevOp.op = "analyzeImage"
    /\ stats.successful = 1
    /\ stats.failed = 0

\* the same after the OpenAI credentials were replaced, the mode unchanged
C21_WitnessCredentials ==
    /\ calls = 2
    /\ last.id = 2
    /\ last.outcome = "hit"
    /\ last.result.mode = "openai"
    /\ config.mode = "openai"
    /\ config.openai.apiKey = "sk-other"

(***************************************************************************)
(* C22, as claimed: clearCache neither cancels nor invalidates the calls   *)
(* in flight.  It leaves them suspended, and a call that was in flight     *)
(* when the cache was cleared and completes with no analyzeImage call      *)
(* started since stores its result, so that the cache is not empty after   *)
(* it; a request for the key of the call that has just stored its result   *)
(* is then a cache hit returning that result.                              *)
(***************************************************************************)
C22_KeepsCallsInFlight == C10_ClearsCache => pending' = pending /\ DOMAIN cache' = {}

\* a call completes, the cache cleared and no call started since
C22_CompletesAfterClear == C11_SettlesCall /\ prevOp.op = "clearCache"

C22_Stored ==
    /\ DOMAIN cache' = {last'.key}
    /\ last'.result # NoResult
    /\ cache'[last'.key] = last'.result

\* a request for the key of the call that has just stored its result
C22_RequestsStored ==
    /\ StartsCall
    /\ prevOp.op = "resume"
    /\ last.key \in DOMAIN cache
    /\ cache[last.key] = last.result
    /\ StartedCall.key = last.key

C22_Hit ==
    /\ last'.id = calls'
    /\ last'.outcome = "hit"
    /\ last'.result = last.result
    /\ stats'.cacheHits = stats.cacheHits + 1
    /\ pending' = pending

C22_Original ==
    [][ /\ C22_KeepsCallsInFlight
        /\ (C22_CompletesAfterClear => C22_Stored)
        /\ (C22_RequestsStored => C22_Hit) ]_vars

(***************************************************************************)
(* C22, amended: the same, the call storing its result when it completes   *)
(* without error while caching is enabled.  (A call whose backend fails    *)
(* returns the fallback result and one that completes after caching was    *)
(* turned off returns its result, neither storing it: the cache stays      *)
(* empty.)                                                                 *)
(***************************************************************************)
C22_ClearSparesInFlight ==
    [][ /\ C22_KeepsCallsInFlight
        /\ (C22_CompletesAfterClear =>
               IF last'.outcome = "success" /\ config.cacheResults
               THEN C22_Stored
               ELSE DOMAIN cache' = {})
        /\ (C22_RequestsStored => C22_Hit) ]_vars

\* the two calls, which have different keys, completed without error,
\* caching enabled throughout, and only the result of the one that
\* completed last is in the cache: the cache was cleared between the two
\* completions, with that call in flight, and no call has been started since
C22_Witness ==
    /\ calls = 2
    /\ pending = {}
    /\ stats.successful = 2
    /\ config.cacheResults
    /\ prevOp.op = "resume"
    /\ last.id = 1
    /\ last.outcome = "success"
    /\ DOMAIN cache = {last.key}
    /\ cache[last.key] = last.result

(***************************************************************************)
(* C23: while cacheResults is false analyzeImage neither reads nor writes  *)
(* the cache: every call started then is dispatched, also one whose key is *)
(* in the cache, and no step of analyzeImage taken then changes cacheHits, *)
(* the cache or getStats().cacheSize.  updateConfig never changes the      *)
(* cache, so turning caching off keeps the entries, and a call that        *)
(* directly follows the updateConfig turning caching on again, for a key   *)
(* still in the cache, is a cache hit returning the stored result.         *)
(***************************************************************************)
\* a step of analyzeImage: its invocation or its resumption
C23_AnalyzeImageStep == StartsCall \/ C11_SettlesCall

C23_CacheUntouched ==
    /\ cache' = cache
    /\ stats'.cacheHits = stats.cacheHits
    /\ Cardinality(DOMAIN cache') = Cardinality(DOMAIN cache)

C23_Dispatched ==
    \/ SuspendsCall
    \/ last'.id = calls' /\ last'.outcome # "hit"

\* the step directly follows an updateConfig that turned caching on
C23_AfterTurningOn ==
    /\ prevOp.op = "updateConfig"
    /\ "cacheResults" \in DOMAIN prevOp.arg
    /\ prevOp.arg.cacheResults

C23_CachingOff ==
    [][ /\ (C23_AnalyzeImageStep /\ ~config.cacheResults => C23_CacheUntouched)
        /\ (StartsCall /\ ~config.cacheResults => C23_Dispatched)
        /\ (C7_UpdatesConfig => cache' = cache)
        /\ (StartsCall /\ C23_AfterTurningOn /\ StartedCall.key \in DOMAIN cache
               => /\ last'.id = calls'
                  /\ last'.outcome = "hit"
                  /\ last'.result = cache[last'.key]
                  /\ stats'.cacheHits = stats.cacheHits + 1
                  /\ cache' = cache) ]_vars

\* caching is off; the second call, started after the first had completed
\* and stored its result, completed without error with another result, and
\* the cache still holds the result of the first: the second call was
\* dispatched although its key was in the cache, and stored nothing
C23_Witness ==
    /\ ~config.cacheResults
    /\ calls = 2
    /\ last.id = 2
    /\ ~last.overlapped
    /\ last.outcome = "success"
    /\ last.key \in DOMAIN cache
    /\ cache[last.key] # last.result
    /\ stats.successful = 2
    /\ stats.cacheHits = 0

====
